---- MODULE Spec2Model ----
(***************************************************************************)
(* Model of the retrieval-augmented question-answering application:        *)
(* the VectorStore class (src/vector_store.py) and the RAGPipeline class   *)
(* (src/rag_pipeline.py), driven by an arbitrary sequential caller; the    *)
(* DocumentProcessor class (src/document_processor.py); and the script of  *)
(* the Streamlit application (src/app.py), driven by the user.             *)
(*                                                                         *)
(* The external collaborators (the Chroma collection, the retriever, the   *)
(* language model) are modelled by what the code relies on: a collection   *)
(* is an ordered sequence of documents shared by the index object and the  *)
(* persist directory; every call into a collaborator may raise, which is   *)
(* an input of the action.                                                 *)
(***************************************************************************)
EXTENDS Integers, Sequences, FiniteSets, TLC

VARIABLES
    vector_store,     \* VectorStore.vector_store: "None" or "Chroma" (the index object)
    collection,       \* the documents of the Chroma collection, in insertion order
    persist_exists,   \* os.path.exists(VectorStore.persist_directory)
    pipeline,         \* the RAGPipeline instance the caller holds, if one was constructed
    ret,              \* the last call: its name, the fault injected, whether it raised, its value,
                      \* the prompt it sent to the model, the turns the memory held before it
    fresh,            \* history: the store started uncreated and was never cleared
    indexed,          \* history: chunks of the batches create_vector_store indexed while fresh
    asked,            \* history: the (question, answer) pairs answered since the memory was empty
    embeddings,       \* VectorStore.embeddings: the provider chosen by the constructor
    run,              \* the script run of app.py: the step it is at, the interaction that
                      \* started it, whether it sees the files the uploader holds
    widget,           \* the files the file_uploader widget holds
    uploaded_files,   \* st.session_state.uploaded_files
    messages          \* st.session_state.messages

storeVars == <<vector_store, collection, persist_exists>>

classVars == <<vector_store, collection, persist_exists, pipeline, ret,
               fresh, indexed, asked>>

sessionVars == <<embeddings, run, widget, uploaded_files, messages>>

vars == <<classVars, sessionVars>>

-----------------------------------------------------------------------------
(* Bounds of the model *)

MaxDocs == 2          \* documents a collection holds at most
MaxBatch == 2         \* chunks of one create_vector_store batch at most
MaxQuestions == 2     \* questions one pipeline instance answers at most
MaxExtra == 1         \* characters by which the longest chunk exceeds the display limit
MaxFiles == 2         \* files the uploader holds at most
MaxChats == 1         \* questions the chat displays at most

(* Program constants *)

DisplayLimit == 200   \* rag_pipeline.py:91, the slice [:200]
RetrieverK == 4       \* rag_pipeline.py:65, search_kwargs={"k": 4}
DefaultK == 4         \* vector_store.py:57, k: int = 4
PerfTestK == 3        \* app.py:289, similarity_search(test_query, k=3)

-----------------------------------------------------------------------------
(* Texts and documents *)

Alphabet == <<"a", "b", "c">>

\* A text of n characters; the character at position i depends on i, so that
\* two different slices of a text are different sequences.
Text(n) == [i \in 1..n |-> Alphabet[(i % 3) + 1]]

Ellipsis == <<".", ".", ".">>

\* Chunk lengths of the documents indexed: short ones, and for the display of
\* sources the lengths around the display limit.
TextLens == {1, 2}
LongTextLens == {DisplayLimit - 1, DisplayLimit, DisplayLimit + 1,
                 DisplayLimit + 1 + MaxExtra}

\* langchain Document(page_content, metadata) as document_processor.py builds it
Document(n) ==
    [page_content |-> Text(n),
     metadata |-> [source |-> "uploads/a.txt", type |-> "txt",
                   chunk |-> 0, total_chunks |-> 1]]

Documents == {Document(n) : n \in TextLens}
LongDocuments == {Document(n) : n \in LongTextLens}

SeqsUpTo(S, n) == UNION {[1..k -> S] : k \in 0..n}

Batches == SeqsUpTo(Documents, MaxBatch)
LongBatches == SeqsUpTo(LongDocuments, MaxBatch) \ {<<>>}

Questions == {"q1", "q2"}
Answers == {"a1"}

Min(a, b) == IF a < b THEN a ELSE b

-----------------------------------------------------------------------------
(* DocumentProcessor, src/document_processor.py *)

ChunkSize == 1000     \* document_processor.py:9, chunk_size: int = 1000
ChunkOverlap == 200   \* document_processor.py:9, chunk_overlap: int = 200

\* the characters str.strip() removes at both ends of a chunk
Whitespace == {" ", "\n", "\t"}

\* separators=["\n\n", "\n", " ", ""], each one as a sequence of characters
Separators == << <<"\n", "\n">>, <<"\n">>, <<" ">>, <<>> >>

RECURSIVE Flatten(_)
Flatten(seqs) == IF seqs = <<>> THEN <<>> ELSE Head(seqs) \o Flatten(Tail(seqs))

\* str.strip(): the text between its first and its last non-whitespace character
Strip(text) ==
    IF \A i \in 1..Len(text) : text[i] \in Whitespace
    THEN <<>>
    ELSE LET first == CHOOSE i \in 1..Len(text) :
                          /\ text[i] \notin Whitespace
                          /\ \A j \in 1..(i - 1) : text[j] \in Whitespace
             last == CHOOSE i \in 1..Len(text) :
                         /\ text[i] \notin Whitespace
                         /\ \A j \in (i + 1)..Len(text) : text[j] \in Whitespace
         IN  SubSeq(text, first, last)

\* the characters equal to c that end right before position i
RunBefore(text, c, i) ==
    CHOOSE k \in 0..(i - 1) :
        /\ \A j \in (i - k)..(i - 1) : text[j] = c
        /\ (i - k = 1 \/ text[i - k - 1] # c)

\* re.split: the positions where the leftmost non-overlapping matches of the
\* separator start (a separator here is one character or one character twice)
MatchStarts(text, separator) ==
    IF Len(separator) = 1
    THEN {i \in 1..Len(text) : text[i] = separator[1]}
    ELSE {i \in 1..(Len(text) - 1) :
              /\ text[i] = separator[1]
              /\ text[i + 1] = separator[2]
              /\ RunBefore(text, separator[1], i) % 2 = 0}

\* the elements of a set of positions in increasing order
Ascending(S) ==
    [k \in 1..Cardinality(S) |-> CHOOSE x \in S : Cardinality({y \in S : y < x}) = k - 1]

\* _split_text_with_regex with keep_separator=True: the text is cut in front of
\* every match, so each piece but the first starts with the separator; the
\* empty separator cuts the text into its characters; empty pieces are dropped.
\* The pieces are given by the positions where they start: piece k is the
\* text from cuts[k] up to cuts[k + 1] - 1.
SplitWithSeparator(text, separator) ==
    IF separator = <<>>
    THEN [k \in 1..(Len(text) + 1) |-> k]
    ELSE Ascending({1} \cup MatchStarts(text, separator) \cup {Len(text) + 1})

\* Mutant: a chunk keeps the whitespace at its ends
JoinDocsUnstripped(text, first, last) ==
    IF first > last THEN <<>> ELSE <<SubSeq(text, first, last)>>

\* _join_docs: the pieces joined with "" and stripped, which is the text from
\* the first character of the first piece to the last character of the last
\* one; it is no chunk when nothing is left
JoinDocs(text, first, last) ==
    LET doc == Strip(SubSeq(text, first, last)) IN IF doc = <<>> THEN <<>> ELSE <<doc>>

\* the while loop of _merge_splits before piece d is added: pieces leave the
\* front of the current chunk, which starts with piece lo, until at most the
\* overlap is left and piece d fits
StillDrops(cuts, l, d) ==
    LET total == cuts[d] - cuts[l]
    IN  total > ChunkOverlap \/ (cuts[d + 1] - cuts[l] > ChunkSize /\ total > 0)

DropFront(cuts, lo, d) ==
    CHOOSE l \in lo..d :
        /\ ~StillDrops(cuts, l, d)
        /\ (l = lo \/ StillDrops(cuts, l - 1, d))

\* the current chunk, which starts with piece lo, is closed before piece d
Closes(cuts, lo, d) == lo < d /\ cuts[d + 1] - cuts[lo] > ChunkSize

\* _merge_splits with the separator "" (keep_separator=True) over the pieces
\* i..n: the pieces are added to the current chunk, which is closed when the
\* next piece would make it longer than the chunk size
RECURSIVE MergeSplits(_, _, _, _, _, _)
MergeSplits(text, cuts, lo, i, n, docs) ==
    IF \A d \in i..n : ~Closes(cuts, lo, d)
    THEN docs \o JoinDocs(text, cuts[lo], cuts[n + 1] - 1)
    ELSE LET d == CHOOSE k \in i..n :
                      Closes(cuts, lo, k) /\ (k = i \/ ~Closes(cuts, lo, k - 1))
         IN  MergeSplits(text, cuts, DropFront(cuts, lo, d), d + 1, n,
                         docs \o JoinDocs(text, cuts[lo], cuts[d] - 1))

\* the first separator that occurs in the text, the last one when none does
SeparatorIndex(text, separators) ==
    LET found == {k \in 1..Len(separators) :
                      separators[k] = <<>> \/ MatchStarts(text, separators[k]) # {}}
    IN  IF found = {} THEN Len(separators)
        ELSE CHOOSE k \in found : \A j \in found : k <= j

\* RecursiveCharacterTextSplitter._split_text: the pieces shorter than the
\* chunk size are merged, a longer piece is split again with the separators
\* that are left (and is a chunk of its own when none is left)
RECURSIVE SplitTextWith(_, _)
RECURSIVE SplitPieces(_, _, _, _, _)
SplitPieces(text, cuts, i, new_separators, final_chunks) ==
    LET n == Len(cuts) - 1
        long == {k \in i..n : cuts[k + 1] - cuts[k] >= ChunkSize}
        next == IF long = {} THEN n + 1 ELSE CHOOSE k \in long : \A j \in long : k <= j
        merged == IF next = i THEN <<>>
                  ELSE MergeSplits(text, cuts, i, i, next - 1, <<>>)
        piece == SubSeq(text, cuts[next], cuts[next + 1] - 1)
    IN  IF long = {}
        THEN final_chunks \o merged
        ELSE SplitPieces(text, cuts, next + 1, new_separators,
                         final_chunks \o merged \o
                             (IF new_separators = <<>> THEN <<piece>>
                              ELSE SplitTextWith(piece, new_separators)))

SplitTextWith(text, separators) ==
    LET k == SeparatorIndex(text, separators)
        found == separators[k] = <<>> \/ MatchStarts(text, separators[k]) # {}
        new_separators == IF found /\ separators[k] # <<>>
                          THEN SubSeq(separators, k + 1, Len(separators))
                          ELSE <<>>
    IN  SplitPieces(text, SplitWithSeparator(text, separators[k]), 1,
                    new_separators, <<>>)

\* text_splitter.split_text(text)
split_text(text) == SplitTextWith(text, Separators)

\* A file in the uploads directory: its path, the suffix Path gives for the
\* path, whether open and read (for a PDF: PdfReader and extract_text) succeed,
\* and what they give: the text of a text or Markdown file, the texts of the
\* pages of a PDF.
File(file_path, suffix, readable, content) ==
    [file_path |-> file_path, suffix |-> suffix, readable |-> readable,
     content |-> content]

\* str.lower() on the suffixes of the model
Lower(suffix) ==
    CASE suffix \in {".pdf", ".PDF"} -> ".pdf"
      [] suffix \in {".txt", ".TXT"} -> ".txt"
      [] suffix \in {".md", ".Md"} -> ".md"
      [] OTHER -> suffix

\* Mutant: every chunk carries the number of the last chunk
ChunkDocumentsNumberedLast(file_path, type, chunks) ==
    [i \in 1..Len(chunks) |->
        [page_content |-> chunks[i],
         metadata |-> [source |-> file_path, type |-> type,
                       chunk |-> Len(chunks) - 1, total_chunks |-> Len(chunks)]]]

\* for i, chunk in enumerate(chunks): documents.append(Document(...))
ChunkDocuments(file_path, type, chunks) ==
    [i \in 1..Len(chunks) |->
        [page_content |-> chunks[i],
         metadata |-> [source |-> file_path, type |-> type,
                       chunk |-> i - 1, total_chunks |-> Len(chunks)]]]

\* text += page.extract_text() + "\n", over the pages
PdfText(pages) == Flatten([k \in 1..Len(pages) |-> pages[k] \o <<"\n">>])

\* load_pdf, load_txt, load_md: what open, read or parse raises is caught, and
\* the documents appended so far (none) are returned
load_pdf(file) ==
    IF ~file.readable THEN <<>>
    ELSE ChunkDocuments(file.file_path, "pdf", split_text(PdfText(file.content)))

load_txt(file) ==
    IF ~file.readable THEN <<>>
    ELSE ChunkDocuments(file.file_path, "txt", split_text(file.content))

load_md(file) ==
    IF ~file.readable THEN <<>>
    ELSE ChunkDocuments(file.file_path, "markdown", split_text(file.content))

\* Mutant: a suffix that is not supported is read as plain text
ProcessFileAnySuffix(file) ==
    LET file_extension == Lower(file.suffix)
    IN  IF file_extension = ".pdf" THEN load_pdf(file)
        ELSE IF file_extension = ".md" THEN load_md(file)
        ELSE load_txt(file)

\* process_file(file_path) as a function of the file at the path
ProcessFile(file) ==
    LET file_extension == Lower(file.suffix)
    IN  IF file_extension = ".pdf" THEN load_pdf(file)
        ELSE IF file_extension = ".txt" THEN load_txt(file)
        ELSE IF file_extension = ".md" THEN load_md(file)
        ELSE <<>>

-----------------------------------------------------------------------------
(* The last call, as the caller observes it *)

NoPrompt == [sent |-> FALSE, context |-> <<>>, chat_history |-> <<>>, question |-> ""]

Call(op, fault, raised, value) ==
    [op |-> op, fault |-> fault, raised |-> raised, value |-> value,
     prompt |-> NoPrompt, before |-> Len(pipeline.memory)]

-----------------------------------------------------------------------------
(* VectorStore, src/vector_store.py *)

\* VectorStore.__init__: self.embeddings is OllamaEmbeddings, and
\* SentenceTransformerEmbeddings when OllamaEmbeddings raises; "None" stands
\* for the attribute never assigned
SelectEmbeddings(primary_fails, fallback_fails) ==
    IF ~primary_fails THEN "OllamaEmbeddings"
    ELSE IF ~fallback_fails THEN "SentenceTransformerEmbeddings"
    ELSE "None"

\* the second provider is constructed inside the except branch of the first,
\* so what it raises leaves the constructor
ConstructorRaises(primary_fails, fallback_fails) == primary_fails /\ fallback_fails

\* Mutant: an existing index is rebuilt from the batch instead of extended
IndexedCollectionRebuilt(vs, coll, documents) ==
    IF vs = "None" THEN coll \o documents ELSE documents

\* Chroma.from_documents on a missing index, add_documents on an existing one:
\* both insert the batch after the documents the collection already holds.
IndexedCollection(vs, coll, documents) ==
    IF vs = "None" THEN coll \o documents ELSE coll \o documents

\* create_vector_store(documents); fails: the embedding or the insertion raises
create_vector_store(documents, fails) ==
    /\ Len(collection) + Len(documents) <= MaxDocs
    /\ IF documents = <<>>
       THEN /\ ~fails
            /\ ret' = Call("create_vector_store", "none", FALSE, "None")
            /\ UNCHANGED <<storeVars, indexed>>
       ELSE IF fails
       THEN /\ ret' = Call("create_vector_store", "index", TRUE, "None")
            /\ UNCHANGED <<storeVars, indexed>>
       ELSE /\ vector_store' = "Chroma"
            /\ collection' = IndexedCollection(vector_store, collection, documents)
            /\ persist_exists' = IF vector_store = "None" THEN TRUE ELSE persist_exists
            /\ indexed' = IF fresh THEN indexed + Len(documents) ELSE 0
            /\ ret' = Call("create_vector_store", "none", FALSE, "None")
    /\ UNCHANGED <<pipeline, fresh, asked>>

\* load_existing_store(); fails: the Chroma constructor raises
load_existing_store(fails) ==
    /\ IF persist_exists /\ ~fails
       THEN /\ vector_store' = "Chroma"
            /\ ret' = Call("load_existing_store", "none", FALSE, TRUE)
       ELSE /\ fails => persist_exists
            /\ vector_store' = vector_store
            /\ ret' = Call("load_existing_store",
                           IF fails THEN "load" ELSE "none", FALSE, FALSE)
    /\ UNCHANGED <<collection, persist_exists, pipeline, fresh, indexed, asked>>

\* The results a similarity search over coll can give for k: the Min(k, n)
\* nearest documents. The embedding decides which is nearest; the orders
\* modelled are the rotations of the collection.
Rankings(coll, k) ==
    LET n == Len(coll)
        m == Min(k, n)
    IN  IF n = 0 THEN {<<>>}
        ELSE {[i \in 1..m |-> coll[((r + i - 1) % n) + 1]] : r \in 0..(n - 1)}

\* similarity_search(query, k); fails: the index's search raises
similarity_search(query, k, fails, found) ==
    /\ IF vector_store = "None"
       THEN /\ ~fails /\ found = <<>>
            /\ ret' = Call("similarity_search", "none", FALSE, <<>>)
       ELSE IF fails
       THEN /\ found = <<>>
            /\ ret' = Call("similarity_search", "search", TRUE, "None")
       ELSE /\ found \in Rankings(collection, k)
            /\ ret' = Call("similarity_search", "none", FALSE, found)
    /\ UNCHANGED <<storeVars, pipeline, fresh, indexed, asked>>

\* The dictionary get_store_info returns; count_fails: _collection.count() raises
StoreInfo(vs, coll, count_fails) ==
    IF vs = "None" THEN [status |-> "not_initialized", count |-> 0]
    ELSE IF count_fails THEN [status |-> "error", count |-> 0]
    ELSE [status |-> "active", count |-> Len(coll)]

get_store_info(count_fails) ==
    /\ count_fails => vector_store # "None"
    /\ ret' = Call("get_store_info", IF count_fails THEN "count" ELSE "none", FALSE,
                   StoreInfo(vector_store, collection, count_fails))
    /\ UNCHANGED <<storeVars, pipeline, fresh, indexed, asked>>

\* self.vector_store after the first half of clear_store: the assignment of
\* None follows delete_collection inside the try block.
ClearedIndex(vs, delete_fails) ==
    IF vs # "None" /\ ~delete_fails THEN "None" ELSE vs

\* The collection after clear_store: the persist directory is removed in
\* either case; an index object that survives keeps serving what it holds.
ClearedCollection(vs, coll, delete_fails) ==
    IF vs # "None" /\ delete_fails THEN coll ELSE <<>>

\* The collection after the second half of clear_store: shutil.rmtree is
\* called outside the try block when the persist directory exists; when it
\* raises, the directory stays with what the first half left in it.
RemovedCollection(vs, coll, delete_fails, rmtree_fails) ==
    IF rmtree_fails /\ vs = "None" THEN coll
    ELSE ClearedCollection(vs, coll, delete_fails)

\* the fault of a clear_store call, for the record of the call
ClearFault(delete_fails, rmtree_fails) ==
    IF rmtree_fails THEN "rmtree" ELSE IF delete_fails THEN "delete" ELSE "none"

\* clear_store(); delete_fails: delete_collection raises (caught);
\* rmtree_fails: shutil.rmtree of the persist directory raises (not caught)
clear_store(delete_fails, rmtree_fails) ==
    /\ delete_fails => vector_store # "None"
    /\ rmtree_fails => persist_exists
    /\ vector_store' = ClearedIndex(vector_store, delete_fails)
    /\ collection' = RemovedCollection(vector_store, collection, delete_fails,
                                       rmtree_fails)
    /\ persist_exists' = rmtree_fails
    /\ fresh' = FALSE
    /\ indexed' = 0
    /\ ret' = Call("clear_store", ClearFault(delete_fails, rmtree_fails),
                   rmtree_fails, "None")
    /\ UNCHANGED <<pipeline, asked>>

-----------------------------------------------------------------------------
(* RAGPipeline, src/rag_pipeline.py *)

NoPipeline == [constructed |-> FALSE, memory |-> <<>>, qa_chain |-> FALSE]

\* _setup_qa_chain: self.qa_chain is set (TRUE) or stays None (FALSE);
\* chain_fails: ConversationalRetrievalChain.from_llm raises, which is swallowed
SetupQaChain(vs, chain_fails) ==
    IF vs = "None" THEN FALSE
    ELSE IF chain_fails THEN FALSE
    ELSE TRUE

\* Mutant: the new object takes over the history of the pipeline it replaces
NewPipelineRestored(vs, chain_fails) ==
    [constructed |-> TRUE, memory |-> pipeline.memory,
     qa_chain |-> SetupQaChain(vs, chain_fails)]

\* The object RAGPipeline.__init__ leaves when it returns
NewPipeline(vs, chain_fails) ==
    [constructed |-> TRUE, memory |-> <<>>, qa_chain |-> SetupQaChain(vs, chain_fails)]

\* RAGPipeline(vector_store); llm_fails: ChatOllama raises, and __init__ re-raises
RAGPipeline(llm_fails, chain_fails) ==
    /\ chain_fails => (~llm_fails /\ vector_store # "None")
    /\ IF llm_fails
       THEN /\ ret' = Call("RAGPipeline", "llm", TRUE, "None")
            /\ UNCHANGED <<pipeline, asked>>
       ELSE /\ pipeline' = NewPipeline(vector_store, chain_fails)
            /\ asked' = <<>>
            /\ ret' = Call("RAGPipeline", IF chain_fails THEN "chain" ELSE "none",
                           FALSE, "None")
    /\ UNCHANGED <<storeVars, fresh, indexed>>

\* initialize_rag_pipeline() of the application: constructs the pipeline only
\* when get_store_info reports count > 0, and catches what the constructor raises
initialize_rag_pipeline(count_fails, llm_fails, chain_fails) ==
    /\ count_fails => vector_store # "None"
    /\ LET info == StoreInfo(vector_store, collection, count_fails)
       IN  IF info.count > 0
           THEN /\ chain_fails => ~llm_fails
                /\ IF llm_fails
                   THEN /\ ret' = Call("initialize_rag_pipeline", "llm", FALSE, FALSE)
                        /\ UNCHANGED <<pipeline, asked>>
                   ELSE /\ pipeline' = NewPipeline(vector_store, chain_fails)
                        /\ asked' = <<>>
                        /\ ret' = Call("initialize_rag_pipeline",
                                       IF chain_fails THEN "chain" ELSE "none",
                                       FALSE, TRUE)
           ELSE /\ ~llm_fails /\ ~chain_fails
                /\ ret' = Call("initialize_rag_pipeline",
                               IF count_fails THEN "count" ELSE "none", FALSE, FALSE)
                /\ UNCHANGED <<pipeline, asked>>
    /\ UNCHANGED <<storeVars, fresh, indexed>>

\* Mutant: the "not ready" dictionary does not flag the error
NotReadyResultUnflagged ==
    [answer |-> <<"System not ready. Please upload documents first.">>,
     source_documents |-> <<>>,
     error |-> FALSE]

\* The "not ready" dictionary of ask_question
NotReadyResult ==
    [answer |-> <<"System not ready. Please upload documents first.">>,
     source_documents |-> <<>>,
     error |-> TRUE]

\* The dictionary of the except branch of ask_question; e is str(e)
ErrorResult(e) ==
    [answer |-> <<"Error processing question: ", e>>,
     source_documents |-> <<>>,
     error |-> TRUE]

\* Mutant: the slice without the ellipsis
SourceContentSliced(page_content) ==
    IF Len(page_content) > DisplayLimit
    THEN SubSeq(page_content, 1, DisplayLimit)
    ELSE page_content

\* doc.page_content[:200] + "..." if len(doc.page_content) > 200 else doc.page_content
SourceContent(page_content) ==
    IF Len(page_content) > DisplayLimit
    THEN SubSeq(page_content, 1, DisplayLimit) \o Ellipsis
    ELSE page_content

\* The sources list built from result["source_documents"]
Sources(source_documents) ==
    [i \in 1..Len(source_documents) |->
        [content |-> SourceContent(source_documents[i].page_content),
         metadata |-> source_documents[i].metadata]]

\* Mutant: the answer is saved before the question
SaveContextSwapped(memory, question, answer) ==
    memory \o <<[type |-> "ai", content |-> answer],
                [type |-> "human", content |-> question]>>

\* ConversationBufferMemory.save_context, called by the chain after the
\* answer: the input as a human message, then the output as an ai message.
SaveContext(memory, question, answer) ==
    memory \o <<[type |-> "human", content |-> question],
                [type |-> "ai", content |-> answer]>>

\* The chain's prompt: {context}, {chat_history}, {question}. With a non-empty
\* history the chain first condenses the question into a standalone one.
ComposePrompt(retrieved, memory, standalone) ==
    [sent |-> TRUE, context |-> retrieved, chat_history |-> memory,
     question |-> standalone]

\* Mutant: the try block covers only the extraction of the sources, so what
\* the chain raises leaves ask_question
AskOutcomeUncaught(p, question, fault, retrieved, standalone, answer) ==
    IF ~p.qa_chain
    THEN [pipeline |-> p, raised |-> FALSE, value |-> NotReadyResult,
          prompt |-> NoPrompt]
    ELSE IF fault = "retrieval"
    THEN [pipeline |-> p, raised |-> TRUE, value |-> "None",
          prompt |-> NoPrompt]
    ELSE IF fault = "generation"
    THEN [pipeline |-> p, raised |-> TRUE, value |-> "None",
          prompt |-> ComposePrompt(retrieved, p.memory, standalone)]
    ELSE [pipeline |-> [p EXCEPT !.memory = SaveContext(p.memory, question, answer)],
          raised |-> FALSE,
          value |-> [answer |-> <<answer>>,
                     source_documents |-> Sources(retrieved),
                     error |-> FALSE],
          prompt |-> ComposePrompt(retrieved, p.memory, standalone)]

\* Mutant: a pipeline without a chain sets one up when it finds the index
\* object at the time of the question
AskOutcomeRechecked(p, question, fault, retrieved, standalone, answer) ==
    IF ~p.qa_chain
    THEN [pipeline |-> [p EXCEPT !.qa_chain = SetupQaChain(vector_store, FALSE)],
          raised |-> FALSE, value |-> NotReadyResult, prompt |-> NoPrompt]
    ELSE IF fault = "retrieval"
    THEN [pipeline |-> p, raised |-> FALSE, value |-> ErrorResult(fault),
          prompt |-> NoPrompt]
    ELSE IF fault = "generation"
    THEN [pipeline |-> p, raised |-> FALSE, value |-> ErrorResult(fault),
          prompt |-> ComposePrompt(retrieved, p.memory, standalone)]
    ELSE [pipeline |-> [p EXCEPT !.memory = SaveContext(p.memory, question, answer)],
          raised |-> FALSE,
          value |-> [answer |-> <<answer>>,
                     source_documents |-> Sources(retrieved),
                     error |-> FALSE],
          prompt |-> ComposePrompt(retrieved, p.memory, standalone)]

\* Mutant: the question is saved as the user's turn before the model is
\* called, so a failing generation leaves it in the history
AskOutcomeQuestionSavedFirst(p, question, fault, retrieved, standalone, answer) ==
    IF ~p.qa_chain
    THEN [pipeline |-> p, raised |-> FALSE, value |-> NotReadyResult,
          prompt |-> NoPrompt]
    ELSE IF fault = "retrieval"
    THEN [pipeline |-> p, raised |-> FALSE, value |-> ErrorResult(fault),
          prompt |-> NoPrompt]
    ELSE IF fault = "generation"
    THEN [pipeline |-> [p EXCEPT !.memory =
                           Append(p.memory, [type |-> "human", content |-> question])],
          raised |-> FALSE, value |-> ErrorResult(fault),
          prompt |-> ComposePrompt(retrieved, p.memory, standalone)]
    ELSE [pipeline |-> [p EXCEPT !.memory = SaveContext(p.memory, question, answer)],
          raised |-> FALSE,
          value |-> [answer |-> <<answer>>,
                     source_documents |-> Sources(retrieved),
                     error |-> FALSE],
          prompt |-> ComposePrompt(retrieved, p.memory, standalone)]

\* What ask_question(question) does to pipeline p. fault: what raises inside
\* the chain ("retrieval": before the prompt is composed; "generation": the
\* model call on the prompt). retrieved, standalone, answer: what the retriever
\* and the model give. The try block covers the whole chain call, and the
\* chain saves the turns in the memory only after the answer.
AskOutcome(p, question, fault, retrieved, standalone, answer) ==
    IF ~p.qa_chain
    THEN [pipeline |-> p, raised |-> FALSE, value |-> NotReadyResult,
          prompt |-> NoPrompt]
    ELSE IF fault = "retrieval"
    THEN [pipeline |-> p, raised |-> FALSE, value |-> ErrorResult(fault),
          prompt |-> NoPrompt]
    ELSE IF fault = "generation"
    THEN [pipeline |-> p, raised |-> FALSE, value |-> ErrorResult(fault),
          prompt |-> ComposePrompt(retrieved, p.memory, standalone)]
    ELSE [pipeline |-> [p EXCEPT !.memory = SaveContext(p.memory, question, answer)],
          raised |-> FALSE,
          value |-> [answer |-> <<answer>>,
                     source_documents |-> Sources(retrieved),
                     error |-> FALSE],
          prompt |-> ComposePrompt(retrieved, p.memory, standalone)]

\* ask_question(question): the inputs that do not matter on a path are pinned
ask_question(question, fault, retrieved, standalone, answer) ==
    /\ pipeline.constructed
    /\ ~pipeline.qa_chain => fault = "none"
    /\ IF pipeline.qa_chain /\ fault # "retrieval"
       THEN retrieved \in Rankings(collection, RetrieverK)
       ELSE retrieved = <<>>
    /\ (pipeline.qa_chain /\ fault # "retrieval" /\ pipeline.memory # <<>>)
          \/ standalone = question
    /\ (pipeline.qa_chain /\ fault = "none") \/ answer = "a1"
    /\ (pipeline.qa_chain /\ fault = "none") => Len(pipeline.memory) < 2 * MaxQuestions
    /\ LET out == AskOutcome(pipeline, question, fault, retrieved, standalone, answer)
       IN  /\ pipeline' = out.pipeline
           /\ ret' = [Call("ask_question", fault, out.raised, out.value)
                         EXCEPT !.prompt = out.prompt]
           /\ asked' = IF out.raised \/ out.value.error
                       THEN asked
                       ELSE Append(asked, [question |-> question, answer |-> answer])
    /\ UNCHANGED <<storeVars, fresh, indexed>>

\* Mutant: a copy of the messages is cleared, the memory keeps them
MemoryAfterClearOfCopy(memory) == memory

\* self.memory.clear()
MemoryAfterClear(memory) == <<>>

\* clear_memory()
clear_memory ==
    /\ pipeline.constructed
    /\ pipeline' = [pipeline EXCEPT !.memory = MemoryAfterClear(pipeline.memory)]
    /\ asked' = <<>>
    /\ ret' = Call("clear_memory", "none", FALSE, "None")
    /\ UNCHANGED <<storeVars, fresh, indexed>>

\* The list get_chat_history builds from memory.chat_memory.messages
ChatHistory(memory) ==
    [i \in 1..Len(memory) |-> [type |-> memory[i].type, content |-> memory[i].content]]

\* get_chat_history(); read_fails: reading the messages of the memory raises,
\* which is caught
get_chat_history(read_fails) ==
    /\ pipeline.constructed
    /\ ret' = Call("get_chat_history", IF read_fails THEN "read" ELSE "none", FALSE,
                   IF read_fails THEN <<>> ELSE ChatHistory(pipeline.memory))
    /\ UNCHANGED <<storeVars, pipeline, fresh, indexed, asked>>

\* The dictionary get_system_info returns (model_name left out: a constant)
SystemInfo(p, info) ==
    [vector_store_status |-> info.status,
     document_count |-> info.count,
     memory_initialized |-> TRUE,
     qa_chain_initialized |-> p.qa_chain]

\* Mutant: get_system_info queries the count itself, outside any try
GetSystemInfoUncaught(count_fails) ==
    /\ pipeline.constructed
    /\ count_fails => vector_store # "None"
    /\ ret' = IF count_fails
              THEN Call("get_system_info", "count", TRUE, "None")
              ELSE Call("get_system_info", "none", FALSE,
                        SystemInfo(pipeline, StoreInfo(vector_store, collection, FALSE)))
    /\ UNCHANGED <<storeVars, pipeline, fresh, indexed, asked>>

get_system_info(count_fails) ==
    /\ pipeline.constructed
    /\ count_fails => vector_store # "None"
    /\ ret' = Call("get_system_info", IF count_fails THEN "count" ELSE "none", FALSE,
                   SystemInfo(pipeline, StoreInfo(vector_store, collection, count_fails)))
    /\ UNCHANGED <<storeVars, pipeline, fresh, indexed, asked>>

-----------------------------------------------------------------------------
(* The application, src/app.py *)

\* A script run goes through the script from top to bottom; run.pc is the step
\* it is at, run.event the interaction that started it.
NoEvent == [kind |-> "none", prompt |-> ""]

Run(pc, event, sees_files) == [pc |-> pc, event |-> event, sees_files |-> sees_files]

Idle == Run("idle", NoEvent, TRUE)

Goto(pc) == run' = [run EXCEPT !.pc = pc]

\* The files of the model: two readable ones of one chunk each, a PDF whose
\* parsing fails, and one whose suffix is not supported.
UploadFiles ==
    {File("uploads/a.txt", ".txt", TRUE, Text(1)),
     File("uploads/b.Md", ".Md", TRUE, Text(2)),
     File("uploads/c.PDF", ".PDF", FALSE, <<>>),
     File("uploads/d.docx", ".docx", TRUE, Text(1))}

\* The files of a whole session: a readable one and one whose parsing fails
SessionFiles ==
    {File("uploads/a.txt", ".txt", TRUE, Text(1)),
     File("uploads/c.PDF", ".PDF", FALSE, <<>>)}

\* what the uploader can hold: up to MaxFiles of the files, none of them twice
Selections(files) ==
    {selected \in SeqsUpTo(files, MaxFiles) :
        \A i, j \in 1..Len(selected) : selected[i] = selected[j] => i = j}

\* Mutant: the loop ends at the first file that yields no document
RECURSIVE AllDocumentsUntilFailure(_)
AllDocumentsUntilFailure(files) ==
    IF files = <<>> \/ ProcessFile(Head(files)) = <<>> THEN <<>>
    ELSE ProcessFile(Head(files)) \o AllDocumentsUntilFailure(Tail(files))

\* all_documents of process_uploaded_files: each file is saved to the uploads
\* directory and processed, in the order of the list
RECURSIVE AllDocuments(_)
AllDocuments(files) ==
    IF files = <<>> THEN <<>>
    ELSE ProcessFile(Head(files)) \o AllDocuments(Tail(files))

\* The user interacts with the page, which starts a script run: the uploader
\* is given other files ("upload"), a button is clicked ("clear", "perf"), a
\* question is submitted ("ask") or another widget is used ("rerun").
Interact(kind, prompt, files) ==
    /\ run.pc = "idle"
    /\ CASE kind = "upload" ->
               /\ files # widget
               /\ Len(collection) + Len(AllDocuments(files)) <= MaxDocs
         [] kind = "ask" ->
               /\ files = widget /\ pipeline.constructed
               /\ Len(messages) + 2 <= 2 * MaxChats
         [] kind = "perf" -> files = widget /\ pipeline.constructed
         [] OTHER -> files = widget
    /\ widget' = files
    /\ run' = Run("sidebar", [kind |-> kind, prompt |-> prompt], TRUE)
    /\ UNCHANGED <<classVars, embeddings, uploaded_files, messages>>

\* the sidebar: the store's info is displayed; then the Clear All Data button
Sidebar(count_fails) ==
    /\ run.pc = "sidebar"
    /\ embeddings # "None"
    /\ get_store_info(count_fails)
    /\ Goto(IF run.event.kind = "clear" THEN "clear" ELSE "upload")
    /\ UNCHANGED <<embeddings, widget, uploaded_files, messages>>

\* clear_all_data(), which ends with st.rerun(): the script runs again, with no
\* interaction. The uploader was not rendered in the run that is cut short, so
\* the run that follows may see its files or may see none (sees_files).
\* clear_store() is its first statement: what clear_store raises ends the
\* script run before the session state is reset.
clear_all_data(delete_fails, rmtree_fails, sees_files) ==
    /\ run.pc = "clear"
    /\ delete_fails => vector_store # "None"
    /\ rmtree_fails => persist_exists /\ sees_files
    /\ vector_store' = ClearedIndex(vector_store, delete_fails)
    /\ collection' = RemovedCollection(vector_store, collection, delete_fails,
                                       rmtree_fails)
    /\ persist_exists' = rmtree_fails
    /\ fresh' = FALSE
    /\ indexed' = 0
    /\ ret' = Call("clear_all_data", ClearFault(delete_fails, rmtree_fails),
                   rmtree_fails, "None")
    /\ IF rmtree_fails
       THEN /\ run' = Idle
            /\ UNCHANGED <<pipeline, asked, messages, uploaded_files>>
       ELSE /\ pipeline' = NoPipeline
            /\ asked' = <<>>
            /\ messages' = <<>>
            /\ uploaded_files' = <<>>
            /\ run' = Run("sidebar", NoEvent, sees_files)
    /\ UNCHANGED <<embeddings, widget>>

\* the upload trigger and the loop of process_uploaded_files
UploadTrigger ==
    /\ run.pc = "upload"
    /\ LET files == IF run.sees_files THEN widget ELSE <<>>
       IN  IF files # <<>> /\ files # uploaded_files
           THEN /\ uploaded_files' = files
                /\ ret' = Call("process_uploaded_files", "none", FALSE,
                               AllDocuments(files))
                /\ Goto(IF AllDocuments(files) # <<>> THEN "index" ELSE "chat")
           ELSE /\ UNCHANGED <<uploaded_files, ret>>
                /\ Goto("chat")
    /\ UNCHANGED <<storeVars, pipeline, fresh, indexed, asked>>
    /\ UNCHANGED <<embeddings, widget, messages>>

\* if all_documents: create_vector_store(all_documents); what it raises ends
\* the script run
IndexBatch(fails) ==
    /\ run.pc = "index"
    /\ create_vector_store(AllDocuments(uploaded_files), fails)
    /\ run' = IF fails THEN Idle ELSE [run EXCEPT !.pc = "initialize"]
    /\ UNCHANGED <<embeddings, widget, uploaded_files, messages>>

\* initialize_rag_pipeline() at the end of process_uploaded_files
InitializeAfterUpload(count_fails, llm_fails, chain_fails) ==
    /\ run.pc = "initialize"
    /\ initialize_rag_pipeline(count_fails, llm_fails, chain_fails)
    /\ Goto("chat")
    /\ UNCHANGED <<embeddings, widget, uploaded_files, messages>>

\* the messages the chat appends (metrics left out: they are times)
UserMessage(prompt) == [role |-> "user", content |-> <<prompt>>, sources |-> <<>>]

AssistantMessage(response) ==
    [role |-> "assistant", content |-> response.answer,
     sources |-> IF response.error THEN <<>> ELSE response.source_documents]

\* the chat input is rendered when the session holds a pipeline
ChatInput == pipeline.constructed /\ run.event.kind = "ask"

\* the chat: a submitted question is displayed and asked, and the answer (or
\* the error message) is displayed
Chat(fault, retrieved, standalone, answer) ==
    /\ run.pc = "chat"
    /\ ChatInput
    /\ ask_question(run.event.prompt, fault, retrieved, standalone, answer)
    /\ IF ret'.raised
       THEN /\ messages' = Append(messages, UserMessage(run.event.prompt))
            /\ run' = Idle
       ELSE /\ messages' = messages \o <<UserMessage(run.event.prompt),
                                         AssistantMessage(ret'.value)>>
            /\ Goto("history")
    /\ UNCHANGED <<embeddings, widget, uploaded_files>>

\* the chat of a script run with no question, or with no pipeline
NoChat ==
    /\ run.pc = "chat"
    /\ ~ChatInput
    /\ Goto("history")
    /\ UNCHANGED <<classVars, embeddings, widget, uploaded_files, messages>>

\* the Chat History panel
ShowHistory(read_fails) ==
    /\ run.pc = "history"
    /\ IF pipeline.constructed
       THEN /\ get_chat_history(read_fails)
            /\ Goto("system_info")
       ELSE /\ ~read_fails
            /\ Goto("startup")
            /\ UNCHANGED classVars
    /\ UNCHANGED <<embeddings, widget, uploaded_files, messages>>

\* the System Info panel
ShowSystemInfo(count_fails) ==
    /\ run.pc = "system_info"
    /\ get_system_info(count_fails)
    /\ Goto(IF run.event.kind = "perf" THEN "performance_test" ELSE "startup")
    /\ UNCHANGED <<embeddings, widget, uploaded_files, messages>>

\* the Run Performance Test button; what the search raises is caught
PerformanceTest(fails, found) ==
    /\ run.pc = "performance_test"
    /\ similarity_search("test query", PerfTestK, fails, found)
    /\ Goto("startup")
    /\ UNCHANGED <<embeddings, widget, uploaded_files, messages>>

\* the end of the script: without a pipeline, load_existing_store() ...
Startup(fails) ==
    /\ run.pc = "startup"
    /\ IF ~pipeline.constructed
       THEN /\ load_existing_store(fails)
            /\ Goto("startup_initialize")
       ELSE /\ ~fails
            /\ run' = Idle
            /\ UNCHANGED classVars
    /\ UNCHANGED <<embeddings, widget, uploaded_files, messages>>

\* ... and initialize_rag_pipeline(), which ends the script run
StartupInitialize(count_fails, llm_fails, chain_fails) ==
    /\ run.pc = "startup_initialize"
    /\ initialize_rag_pipeline(count_fails, llm_fails, chain_fails)
    /\ run' = Idle
    /\ UNCHANGED <<embeddings, widget, uploaded_files, messages>>

-----------------------------------------------------------------------------
(* The specification *)

\* VectorStore() over a persist directory that a previous session may have
\* left; no pipeline yet. The session state is the one the first script run
\* of the application sets up (app.py:17-31), and that run is at the sidebar.
\* primary_fails, fallback_fails: the constructor of the first, of the second
\* embedding provider raises.
VectorStore(primary_fails, fallback_fails) ==
    /\ vector_store = "None"
    /\ persist_exists \in BOOLEAN
    /\ collection \in (IF persist_exists THEN SeqsUpTo(Documents, 1) ELSE {<<>>})
    /\ pipeline = NoPipeline
    /\ embeddings = SelectEmbeddings(primary_fails, fallback_fails)
    /\ ret = [op |-> "VectorStore",
              fault |-> IF ~primary_fails THEN "none"
                        ELSE IF ~fallback_fails THEN "primary" ELSE "embeddings",
              raised |-> ConstructorRaises(primary_fails, fallback_fails),
              value |-> "None", prompt |-> NoPrompt, before |-> 0]
    /\ fresh = ~persist_exists
    /\ indexed = 0
    /\ asked = <<>>
    /\ run = Run("sidebar", NoEvent, TRUE)
    /\ widget = <<>>
    /\ uploaded_files = <<>>
    /\ messages = <<>>

\* The store whose first embedding provider could be constructed
Init == VectorStore(FALSE, FALSE)

\* A call of the caller that holds the store: the constructor returned it, and
\* the session of the application is not involved
Caller == embeddings # "None" /\ UNCHANGED sessionVars

Faults == {"none", "retrieval", "generation"}

EventKinds == {"rerun", "upload", "clear", "ask", "perf"}

Ks == {1, PerfTestK, DefaultK}

Next ==
    \/ \E documents \in Batches, fails \in BOOLEAN :
          create_vector_store(documents, fails) /\ Caller
    \/ \E fails \in BOOLEAN : load_existing_store(fails) /\ Caller
    \/ \E query \in Questions, k \in Ks, fails \in BOOLEAN :
          \E found \in Rankings(collection, k) \cup {<<>>} :
             similarity_search(query, k, fails, found) /\ Caller
    \/ \E count_fails \in BOOLEAN : get_store_info(count_fails) /\ Caller
    \/ \E delete_fails, rmtree_fails \in BOOLEAN :
          clear_store(delete_fails, rmtree_fails) /\ Caller
    \/ \E llm_fails, chain_fails \in BOOLEAN :
          RAGPipeline(llm_fails, chain_fails) /\ Caller
    \/ \E count_fails, llm_fails, chain_fails \in BOOLEAN :
          initialize_rag_pipeline(count_fails, llm_fails, chain_fails) /\ Caller
    \/ \E question \in Questions, fault \in Faults, standalone \in Questions,
          answer \in Answers :
          \E retrieved \in Rankings(collection, RetrieverK) \cup {<<>>} :
             ask_question(question, fault, retrieved, standalone, answer) /\ Caller
    \/ clear_memory /\ Caller
    \/ \E read_fails \in BOOLEAN : get_chat_history(read_fails) /\ Caller
    \/ \E count_fails \in BOOLEAN : get_system_info(count_fails) /\ Caller

Spec == Init /\ [][Next]_vars

\* The display of sources: one batch of chunks whose lengths lie around the
\* display limit is indexed into an uncreated store, a pipeline is constructed
\* over it and answers its first question.
SourcesInit == Init /\ ~persist_exists

SourcesNext ==
    \/ \E documents \in LongBatches :
          vector_store = "None" /\ create_vector_store(documents, FALSE) /\ Caller
    \/ ~pipeline.constructed /\ RAGPipeline(FALSE, FALSE) /\ Caller
    \/ \E question \in Questions, answer \in Answers :
          \E retrieved \in Rankings(collection, RetrieverK) :
             /\ pipeline.memory = <<>>
             /\ ask_question(question, "none", retrieved, question, answer)
             /\ Caller

SourcesSpec == SourcesInit /\ [][SourcesNext]_vars

\* The VectorStore class alone, whatever embedding providers are installed
StoreInit ==
    \E primary_fails, fallback_fails \in BOOLEAN :
       /\ fallback_fails => primary_fails
       /\ VectorStore(primary_fails, fallback_fails)

StoreNext ==
    \/ \E documents \in Batches, fails \in BOOLEAN :
          create_vector_store(documents, fails) /\ Caller
    \/ \E fails \in BOOLEAN : load_existing_store(fails) /\ Caller
    \/ \E query \in Questions, k \in Ks, fails \in BOOLEAN :
          \E found \in Rankings(collection, k) \cup {<<>>} :
             similarity_search(query, k, fails, found) /\ Caller
    \/ \E count_fails \in BOOLEAN : get_store_info(count_fails) /\ Caller
    \/ \E delete_fails, rmtree_fails \in BOOLEAN :
          clear_store(delete_fails, rmtree_fails) /\ Caller

StoreSpec == StoreInit /\ [][StoreNext]_vars

\* The application: the script runs of a session, from the first one on
AppNext ==
    \/ \E kind \in EventKinds, files \in Selections(SessionFiles) :
          Interact(kind, IF kind = "ask" THEN "q1" ELSE "", files)
    \/ Sidebar(FALSE)
    \/ \E delete_fails, rmtree_fails, sees_files \in BOOLEAN :
          clear_all_data(delete_fails, rmtree_fails, sees_files)
    \/ UploadTrigger
    \/ \E fails \in BOOLEAN : IndexBatch(fails)
    \/ \E count_fails, llm_fails, chain_fails \in BOOLEAN :
          InitializeAfterUpload(count_fails, llm_fails, chain_fails)
    \/ \E fault \in {"none", "generation"}, answer \in Answers :
          \E retrieved \in Rankings(collection, RetrieverK) \cup {<<>>} :
             Chat(fault, retrieved, run.event.prompt, answer)
    \/ NoChat
    \/ ShowHistory(FALSE)
    \/ ShowSystemInfo(FALSE)
    \/ \E found \in Rankings(collection, PerfTestK) \cup {<<>>} :
          PerformanceTest(FALSE, found)
    \/ \E fails \in BOOLEAN : Startup(fails)
    \/ \E count_fails, llm_fails, chain_fails \in BOOLEAN :
          StartupInitialize(count_fails, llm_fails, chain_fails)

AppSpec == Init /\ [][AppNext]_vars

\* The uploads of a session: the user only gives files to the uploader
UploadNext ==
    \/ \E files \in Selections(UploadFiles) : Interact("upload", "", files)
    \/ \E count_fails \in BOOLEAN : Sidebar(count_fails)
    \/ UploadTrigger
    \/ \E fails \in BOOLEAN : IndexBatch(fails)
    \/ \E count_fails, llm_fails, chain_fails \in BOOLEAN :
          InitializeAfterUpload(count_fails, llm_fails, chain_fails)
    \/ NoChat
    \/ ShowHistory(FALSE)
    \/ ShowSystemInfo(FALSE)
    \/ \E fails \in BOOLEAN : Startup(fails)
    \/ \E count_fails, llm_fails, chain_fails \in BOOLEAN :
          StartupInitialize(count_fails, llm_fails, chain_fails)

UploadSpec == Init /\ [][UploadNext]_vars

\* The texts of the files that are chunked: short ones with and without
\* whitespace at their ends, texts whose length lies around the chunk size,
\* and texts of up to MaxDocs words that fill more than half a chunk each
WordLen == 600

RECURSIVE Words(_)
Words(k) == IF k = 1 THEN Text(WordLen) ELSE Words(k - 1) \o <<" ">> \o Text(WordLen)

DocTexts ==
    {<<>>, <<"\n">>, <<" ", "\t">>, Text(1), Text(2) \o <<"\n">>, <<" ">> \o Text(2),
     <<"a", " ", "b">>, <<"a", "\n", "\n", "b", "\n">>,
     Text(ChunkSize - 2) \o <<"\n">>, Text(ChunkSize - 1), Text(ChunkSize),
     Text(ChunkSize + MaxExtra)}
       \cup {Words(k) : k \in 1..MaxDocs}

DocSuffixes == {".txt", ".TXT", ".md", ".Md", ".pdf", ".PDF", ".docx"}

DocPath(suffix) ==
    CASE suffix = ".txt" -> "uploads/f.txt"
      [] suffix = ".TXT" -> "uploads/f.TXT"
      [] suffix = ".md" -> "uploads/f.md"
      [] suffix = ".Md" -> "uploads/f.Md"
      [] suffix = ".pdf" -> "uploads/f.pdf"
      [] suffix = ".PDF" -> "uploads/f.PDF"
      [] OTHER -> "uploads/f.docx"

\* a PDF holds the text as its only page
DocFiles ==
    {File(DocPath(suffix), suffix, TRUE,
          IF Lower(suffix) = ".pdf" THEN <<text>> ELSE text) :
        suffix \in DocSuffixes, text \in DocTexts}
       \cup {File(DocPath(suffix), suffix, FALSE, <<>>) : suffix \in DocSuffixes}

\* The chunking of one file: the user gives one file to the uploader of a
\* session whose store is empty, and nothing fails
DocInit == Init /\ ~persist_exists

DocNext ==
    \/ \E file \in DocFiles :
          /\ uploaded_files = <<>> /\ widget = <<>>
          /\ Interact("upload", "", <<file>>)
    \/ Sidebar(FALSE)
    \/ UploadTrigger
    \/ IndexBatch(FALSE)
    \/ InitializeAfterUpload(FALSE, FALSE, FALSE)
    \/ NoChat
    \/ ShowHistory(FALSE)
    \/ ShowSystemInfo(FALSE)
    \/ Startup(FALSE)
    \/ StartupInitialize(FALSE, FALSE, FALSE)

DocSpec == DocInit /\ [][DocNext]_vars

-----------------------------------------------------------------------------
(* Properties *)

IsAsk(r) == r.op = "ask_question"

\* The turns that a log of answered questions amounts to: for each pair, in
\* the order asked, the question as the user's turn, then the answer
Turns(log) ==
    [i \in 1..(2 * Len(log)) |->
        IF i % 2 = 1
        THEN [type |-> "human", content |-> log[(i + 1) \div 2].question]
        ELSE [type |-> "ai", content |-> log[i \div 2].answer]]

IsPrefix(s, t) == Len(s) <= Len(t) /\ s = SubSeq(t, 1, Len(s))

\* C1: ask_question on an Uninitialized pipeline (qa_chain is None) returns,
\* for every question, error = True, the "not ready" answer and no source
\* document, and raises nothing.
C1_NotReadyResult ==
    [][(IsAsk(ret') /\ pipeline.constructed /\ ~pipeline.qa_chain)
          => /\ ~ret'.raised
             /\ ret'.value.error = TRUE
             /\ ret'.value.answer = <<"System not ready. Please upload documents first.">>
             /\ ret'.value.source_documents = <<>>]_vars

C1_Witness ==
    /\ IsAsk(ret) /\ pipeline.constructed /\ ~pipeline.qa_chain
    /\ ret.value.error

\* A question the Ready pipeline answers
AskSucceeds ==
    \E question \in Questions, standalone \in Questions, answer \in Answers :
       \E retrieved \in Rankings(collection, RetrieverK) :
          /\ ask_question(question, "none", retrieved, standalone, answer)
          /\ Caller
          /\ ~ret'.raised /\ ~ret'.value.error

\* C2: on a Ready pipeline, an exception raised by retrieval or generation
\* inside ask_question does not leave the call: the call returns error = True,
\* no source document and a message, the pipeline is still Ready, and (below
\* the bound on the questions) a later ask_question can succeed.
C2_ErrorsCaught ==
    (IsAsk(ret) /\ ret.fault # "none")
       => /\ ~ret.raised
          /\ ret.value.error = TRUE
          /\ ret.value.source_documents = <<>>
          /\ ret.value.answer = <<"Error processing question: ", ret.fault>>
          /\ pipeline.constructed /\ pipeline.qa_chain
          /\ Len(pipeline.memory) = ret.before
          /\ Len(pipeline.memory) < 2 * MaxQuestions => ENABLED AskSucceeds

C2_Witness ==
    /\ IsAsk(ret) /\ ret.fault = "generation" /\ ret.value.error
    /\ pipeline.qa_chain /\ Len(pipeline.memory) = 2

\* C3: on a Ready pipeline the history is, after n questions answered with no
\* clear in between, the 2n turns question, answer in the order asked; and the
\* prompt of an answered question holds, as its history, the question and the
\* answer of every question answered before it.
C3_HistoryInOrder ==
    pipeline.qa_chain
       => /\ pipeline.memory = Turns(asked)
          /\ (IsAsk(ret) /\ ~ret.value.error)
                => /\ ret.prompt.sent
                   /\ Len(asked) > 0
                   /\ ret.prompt.chat_history = Turns(SubSeq(asked, 1, Len(asked) - 1))

C3_Witness ==
    /\ IsAsk(ret) /\ ~ret.value.error
    /\ Len(asked) = 2 /\ Len(pipeline.memory) = 4
    /\ Len(ret.prompt.chat_history) = 2

\* C4: clear_memory leaves the history empty (get_chat_history then returns []
\* and the prompt of the next question has no earlier turn) and leaves the
\* index as it was: the index object, the collection, the persist directory,
\* what get_store_info reports and whether the pipeline is Ready.
C4_ClearMemory ==
    [][/\ ret'.op = "clear_memory"
          => /\ ~ret'.raised
             /\ pipeline'.memory = <<>>
             /\ vector_store' = vector_store
             /\ collection' = collection
             /\ persist_exists' = persist_exists
             /\ \A f \in BOOLEAN :
                   StoreInfo(vector_store', collection', f) =
                      StoreInfo(vector_store, collection, f)
             /\ pipeline'.qa_chain = pipeline.qa_chain
             /\ pipeline'.constructed = pipeline.constructed
       /\ (ret.op = "clear_memory" /\ ret'.op = "get_chat_history")
          => ret'.value = <<>>
       /\ (ret.op = "clear_memory" /\ IsAsk(ret') /\ ret'.prompt.sent)
          => ret'.prompt.chat_history = <<>>]_vars

C4_Witness ==
    /\ ret.op = "clear_memory" /\ ret.before = 4
    /\ pipeline.memory = <<>> /\ pipeline.qa_chain
    /\ vector_store = "Chroma" /\ Len(collection) = 2

\* C5: a pipeline is Ready after its construction only when the store reports a
\* non-zero count at that time; constructed over a store whose count is 0 it
\* is Uninitialized.
C5_ReadyOnlyWithDocuments ==
    (ret.op = "RAGPipeline" /\ ~ret.raised
        /\ StoreInfo(vector_store, collection, FALSE).count = 0)
       => ~pipeline.qa_chain

\* C6: whether the instance is Ready is fixed by its construction: no call but
\* a construction changes qa_chain, whatever happens to the store.
C6_ReadyFixedAtConstruction ==
    [][ret'.op \notin {"RAGPipeline", "initialize_rag_pipeline"}
          => /\ pipeline'.qa_chain = pipeline.qa_chain
             /\ pipeline'.constructed = pipeline.constructed]_vars

C6_Witness ==
    /\ IsAsk(ret) /\ ret.value.error /\ ret.fault = "none"
    /\ pipeline.constructed /\ ~pipeline.qa_chain
    /\ fresh /\ indexed > 0 /\ vector_store = "Chroma"

\* C7: from an uncreated store and with no clear in between, get_store_info
\* (its count query answering) reports 'active' exactly when a non-empty batch
\* was indexed, and as count the number of chunks of all the batches indexed;
\* an empty batch adds nothing to either.
C7_InfoReflectsBatches ==
    fresh
       => /\ StoreInfo(vector_store, collection, FALSE).count = indexed
          /\ StoreInfo(vector_store, collection, FALSE).status = "active" <=> indexed > 0
          /\ (ret.op \in {"get_store_info", "get_system_info"} /\ ret.fault = "none")
                => (IF ret.op = "get_store_info"
                    THEN ret.value.count = indexed
                    ELSE ret.value.document_count = indexed)

C7_Witness ==
    /\ fresh /\ indexed = 2 /\ Len(collection) = 2
    /\ ret.op = "get_store_info" /\ ret.value.status = "active" /\ ret.value.count = 2

\* C8: after clear_store the store is empty (no index object, get_store_info
\* reports not initialized with count 0, no persist directory), and nothing
\* was raised; also when delete_collection failed.
C8_ClearStoreEmpties ==
    ret.op = "clear_store"
       => /\ ~ret.raised
          /\ vector_store = "None"
          /\ \A f \in BOOLEAN :
                StoreInfo(vector_store, collection, f) =
                   [status |-> "not_initialized", count |-> 0]
          /\ ~persist_exists

\* C9: while the index has not been created (before the first non-empty
\* create_vector_store on an uncreated store, and again after clear_store),
\* similarity_search returns the empty sequence, raises nothing and leaves the
\* store as it was.
C9_SearchBeforeIndex ==
    [][(ret'.op = "similarity_search"
          /\ (ret.op = "clear_store" \/ (fresh /\ indexed = 0)))
          => /\ ~ret'.raised
             /\ ret'.value = <<>>
             /\ UNCHANGED storeVars]_vars

\* C10, as the claim states it: the content of every source of an answered
\* question has at most 200 characters and is a prefix of the chunk's content.
C10_SourcesAtMostLimit ==
    (IsAsk(ret) /\ ~ret.value.error)
       => /\ Len(ret.value.source_documents) = Len(ret.prompt.context)
          /\ \A i \in 1..Len(ret.prompt.context) :
                /\ Len(ret.value.source_documents[i].content) <= DisplayLimit
                /\ IsPrefix(ret.value.source_documents[i].content,
                            ret.prompt.context[i].page_content)

\* C10, amended: the content of every source of an answered question is the
\* chunk's content when that has at most 200 characters, and else its first
\* 200 characters followed by "...", 203 characters in all.
C10_SourcesCutWithEllipsis ==
    (IsAsk(ret) /\ ~ret.value.error)
       => /\ Len(ret.value.source_documents) = Len(ret.prompt.context)
          /\ \A i \in 1..Len(ret.prompt.context) :
                LET chunk == ret.prompt.context[i].page_content
                    shown == ret.value.source_documents[i].content
                IN  IF Len(chunk) <= DisplayLimit
                    THEN shown = chunk
                    ELSE /\ Len(shown) = DisplayLimit + 3
                         /\ SubSeq(shown, 1, DisplayLimit) = SubSeq(chunk, 1, DisplayLimit)
                         /\ SubSeq(shown, DisplayLimit + 1, DisplayLimit + 3)
                               = <<".", ".", ".">>

C10_Witness ==
    /\ IsAsk(ret) /\ ~ret.value.error
    /\ \E i \in 1..Len(ret.prompt.context) :
          /\ Len(ret.prompt.context[i].page_content) = DisplayLimit + 1
          /\ Len(ret.value.source_documents[i].content) = DisplayLimit + 3
    /\ \E i \in 1..Len(ret.prompt.context) :
          /\ Len(ret.prompt.context[i].page_content) = DisplayLimit
          /\ Len(ret.value.source_documents[i].content) = DisplayLimit

-----------------------------------------------------------------------------
(* Properties of the document processor and of the application *)

Unsupported(file) == Lower(file.suffix) \notin {".pdf", ".txt", ".md"}

\* the step of a script run that processed a batch of uploaded files
ProcessedBatch ==
    /\ run.pc = "upload" /\ run'.pc # "upload"
    /\ ret'.op = "process_uploaded_files"
    /\ uploaded_files' # uploaded_files

\* C11: a file whose extension is none of .pdf, .txt, .md (in any case)
\* yields no chunk; a batch of such files leaves the index as it was (the index
\* object, the collection, the status and the count reported), does not reach
\* create_vector_store or initialize_rag_pipeline, leaves the pipeline as it
\* was, and raises nothing.
C11_UnsupportedIgnored ==
    [][ProcessedBatch
          => /\ \A i \in 1..Len(uploaded_files') :
                   Unsupported(uploaded_files'[i])
                      => \A k \in 1..Len(ret'.value) :
                            ret'.value[k].metadata.source # uploaded_files'[i].file_path
             /\ (\A i \in 1..Len(uploaded_files') : Unsupported(uploaded_files'[i]))
                   => /\ ret'.value = <<>>
                      /\ ~ret'.raised
                      /\ run'.pc = "chat"
                      /\ storeVars' = storeVars
                      /\ \A f \in BOOLEAN :
                            StoreInfo(vector_store', collection', f) =
                               StoreInfo(vector_store, collection, f)
                      /\ pipeline' = pipeline]_vars

C11_Witness ==
    /\ ret.op = "process_uploaded_files" /\ run.pc = "chat"
    /\ Len(uploaded_files) = 1 /\ Unsupported(uploaded_files[1])
    /\ vector_store = "Chroma" /\ Len(collection) = 1
    /\ pipeline.constructed /\ pipeline.qa_chain

\* the chunks of the files of a batch that could be read, in the order of the batch
RECURSIVE ChunksOfReadable(_)
ChunksOfReadable(files) ==
    IF files = <<>> THEN <<>>
    ELSE (IF Head(files).readable THEN ProcessFile(Head(files)) ELSE <<>>)
            \o ChunksOfReadable(Tail(files))

\* the step of a script run that indexed the documents of a batch
IndexedBatch ==
    /\ run.pc = "index" /\ ret'.op = "create_vector_store" /\ ~ret'.raised

\* C12: a file whose read or parse fails yields no chunk and does not end the
\* batch: the documents of a batch are the chunks of the files that could be
\* read, concatenated in upload order, they are indexed when there is at least
\* one, and the collection is then extended by exactly these documents.
C12_FailureIsolatedPerFile ==
    [][/\ ProcessedBatch
          => /\ ~ret'.raised
             /\ \A i \in 1..Len(uploaded_files') :
                   ~uploaded_files'[i].readable => ProcessFile(uploaded_files'[i]) = <<>>
             /\ ret'.value = ChunksOfReadable(uploaded_files')
             /\ run'.pc = (IF ChunksOfReadable(uploaded_files') # <<>> THEN "index"
                           ELSE "chat")
       /\ IndexedBatch
          => collection' = collection \o ChunksOfReadable(uploaded_files)]_vars

C12_Witness ==
    /\ ret.op = "create_vector_store" /\ ~ret.raised /\ run.pc = "initialize"
    /\ Len(uploaded_files) = 2
    /\ ~uploaded_files[1].readable /\ uploaded_files[2].readable
    /\ Len(collection) = 2
    /\ collection[2].metadata.source = uploaded_files[2].file_path

\* C13: a failure at construction time of what the pipeline needs (the model
\* cannot be initialised, the retrieval chain cannot be set up) leaves the
\* RAGPipeline constructor as an exception, so the caller is never handed a
\* pipeline whose chain is missing over a store that has an index.
C13_ConstructionFailurePropagates ==
    (ret.op = "RAGPipeline")
       => /\ ret.fault \in {"llm", "chain"} => ret.raised
          /\ (~ret.raised /\ vector_store # "None") => pipeline.qa_chain

\* C14: the constructor of VectorStore takes the first embedding provider and
\* the second one only when the first fails; when both fail it still returns a
\* store, which has no index and whose get_store_info reports 'error'; the
\* provider is not assigned again later.
C14_ProviderSelection ==
    /\ ret.op = "VectorStore"
          => /\ ret.fault = "none" => embeddings = "OllamaEmbeddings"
             /\ ret.fault = "primary" => embeddings = "SentenceTransformerEmbeddings"
    /\ embeddings = "None"
          => /\ ~ret.raised
             /\ vector_store = "None"
             /\ \A count_fails \in BOOLEAN :
                   StoreInfo(vector_store, collection, count_fails).status = "error"

\* C15: clear_all_data, from any state of the session, leaves a store that
\* reports 'not_initialized' and count 0, no pipeline, no message and an empty
\* uploaded list; and the index then stays empty until the user gives files to
\* the uploader: no script run started otherwise adds a document.
C15_ClearAllData ==
    [][/\ ret'.op = "clear_all_data"
          => /\ \A count_fails \in BOOLEAN :
                   StoreInfo(vector_store', collection', count_fails) =
                      [status |-> "not_initialized", count |-> 0]
             /\ collection' = <<>>
             /\ pipeline' = NoPipeline
             /\ messages' = <<>>
             /\ uploaded_files' = <<>>
       /\ run.event.kind # "upload" => Len(collection') <= Len(collection)]_vars

\* C16: get_chat_history and get_system_info only read: in every state they
\* raise nothing, return a value (the empty list when the messages cannot be
\* read, status 'error' and count 0 when the count query of the store fails)
\* and leave the pipeline, its history and the store as they were.
C16_AccessorsOnlyRead ==
    [][ret'.op \in {"get_chat_history", "get_system_info"}
          => /\ ~ret'.raised
             /\ pipeline' = pipeline
             /\ storeVars' = storeVars
             /\ ret'.op = "get_chat_history"
                   => ret'.value = (IF ret'.fault = "read" THEN <<>>
                                   ELSE pipeline.memory)
             /\ ret'.op = "get_system_info"
                   => /\ ret'.value.qa_chain_initialized = pipeline.qa_chain
                      /\ ret'.value.memory_initialized
                      /\ ret'.fault = "count"
                            => /\ ret'.value.vector_store_status = "error"
                               /\ ret'.value.document_count = 0
                      /\ ret'.fault = "none"
                            => /\ ret'.value.document_count =
                                     (IF vector_store = "None" THEN 0
                                      ELSE Len(collection))
                               /\ ret'.value.vector_store_status =
                                     (IF vector_store = "None" THEN "not_initialized"
                                      ELSE "active")]_vars

C16_Witness ==
    /\ ret.op = "get_system_info" /\ ret.fault = "count" /\ ~ret.raised
    /\ ret.value.vector_store_status = "error"
    /\ Len(pipeline.memory) = 2 /\ Len(collection) = 2

PageContents(documents) == [k \in 1..Len(documents) |-> documents[k].page_content]

\* the one file of the batch is a text or Markdown file that could be read and
\* whose text is shorter than the chunk size
ShortTextFile ==
    /\ Len(uploaded_files) = 1
    /\ uploaded_files[1].readable
    /\ Lower(uploaded_files[1].suffix) \in {".txt", ".md"}
    /\ Len(uploaded_files[1].content) < ChunkSize

\* the script run is past the processing of the batch
PastUpload ==
    run.pc \in {"chat", "history", "system_info", "startup", "startup_initialize", "idle"}

\* C17 as stated: a text shorter than the chunk size yields exactly one chunk,
\* equal to the text, and the empty text yields none; a single readable text
\* file that is not empty and shorter than the chunk size, uploaded into an
\* empty store, yields 1 chunk and the index then counts 1.
C17_ShortTextOneChunkEqual ==
    ShortTextFile
       => /\ ret.op = "process_uploaded_files"
                => PageContents(ret.value) =
                      (IF uploaded_files[1].content = <<>> THEN <<>>
                       ELSE <<uploaded_files[1].content>>)
          /\ (PastUpload /\ uploaded_files[1].content # <<>>)
                => StoreInfo(vector_store, collection, FALSE) =
                      [status |-> "active", count |-> 1]

\* C17 amended: a text shorter than the chunk size yields exactly one chunk,
\* equal to the text without the whitespace at its two ends, and yields none
\* when it is empty or consists of whitespace; a single readable text file
\* shorter than the chunk size with a character that is not whitespace,
\* uploaded into an empty store, yields 1 chunk and the index then counts 1,
\* and without such a character no index is created.
C17_ShortTextOneChunkStripped ==
    ShortTextFile
       => LET text == uploaded_files[1].content
              blank == \A i \in 1..Len(text) : text[i] \in {" ", "\n", "\t"}
              first == CHOOSE i \in 1..Len(text) :
                          /\ text[i] \notin {" ", "\n", "\t"}
                          /\ \A j \in 1..(i - 1) : text[j] \in {" ", "\n", "\t"}
              last == CHOOSE i \in 1..Len(text) :
                         /\ text[i] \notin {" ", "\n", "\t"}
                         /\ \A j \in (i + 1)..Len(text) : text[j] \in {" ", "\n", "\t"}
          IN  /\ ret.op = "process_uploaded_files"
                    => PageContents(ret.value) =
                          (IF blank THEN <<>> ELSE <<SubSeq(text, first, last)>>)
              /\ PastUpload
                    => StoreInfo(vector_store, collection, FALSE) =
                          (IF blank THEN [status |-> "not_initialized", count |-> 0]
                           ELSE [status |-> "active", count |-> 1])

C17_Witness ==
    /\ ShortTextFile /\ PastUpload
    /\ Len(uploaded_files[1].content) = ChunkSize - 1
    /\ uploaded_files[1].content[ChunkSize - 1] = "\n"
    /\ Len(collection) = 1
    /\ Len(collection[1].page_content) = ChunkSize - 2

\* the type load_pdf, load_txt and load_md give to their chunks
TypeOfSuffix(suffix) ==
    CASE suffix \in {".pdf", ".PDF"} -> "pdf"
      [] suffix \in {".txt", ".TXT"} -> "txt"
      [] suffix \in {".md", ".Md"} -> "markdown"
      [] OTHER -> "none"

\* C18: every chunk of a processed file can be traced: its source is the path
\* of the file, its type follows from the extension (.pdf pdf, .txt txt, .md
\* markdown, in any case), its chunk index is its position, from 0 to n - 1
\* with no gap and no duplicate, and its total_chunks is n, the number of
\* chunks of the file; a file of another extension has no chunk.
C18_ChunksTraceable ==
    (ret.op = "process_uploaded_files" /\ Len(uploaded_files) = 1)
       => LET file == uploaded_files[1]
              n == Len(ret.value)
          IN  /\ \A k \in 1..n :
                    /\ ret.value[k].metadata.source = file.file_path
                    /\ ret.value[k].metadata.type = TypeOfSuffix(file.suffix)
                    /\ ret.value[k].metadata.chunk = k - 1
                    /\ ret.value[k].metadata.total_chunks = n
              /\ TypeOfSuffix(file.suffix) = "none" => n = 0

C18_Witness ==
    /\ ret.op = "process_uploaded_files" /\ Len(uploaded_files) = 1
    /\ Len(ret.value) = MaxDocs
    /\ uploaded_files[1].suffix = ".Md"
    /\ ret.value[MaxDocs].metadata.chunk = MaxDocs - 1
    /\ ret.value[MaxDocs].metadata.type = "markdown"

\* a history of turns that alternate, the user's turn first
Alternates(memory) ==
    /\ Len(memory) % 2 = 0
    /\ \A i \in 1..Len(memory) :
          memory[i].type = (IF i % 2 = 1 THEN "human" ELSE "ai")

\* C19: an ask_question that returns error = True (the pipeline is not ready,
\* or retrieval or generation raised) leaves the history exactly as it was;
\* the history grows only by a question that is answered, by its two turns;
\* so the history always has an even length and its turns alternate, the
\* user's turn first.
C19_FailedAskKeepsHistory ==
    [][/\ (IsAsk(ret') /\ ~ret'.raised /\ ret'.value.error)
          => /\ pipeline'.memory = pipeline.memory
             /\ pipeline' = pipeline
       /\ Len(pipeline'.memory) > Len(pipeline.memory)
          => /\ IsAsk(ret') /\ ~ret'.raised /\ ~ret'.value.error
             /\ Len(pipeline'.memory) = Len(pipeline.memory) + 2
             /\ SubSeq(pipeline'.memory, 1, Len(pipeline.memory)) = pipeline.memory
       /\ Alternates(pipeline'.memory)]_vars

C19_Witness ==
    /\ IsAsk(ret) /\ ret.value.error /\ ret.fault = "retrieval"
    /\ ret.before = 2 /\ Len(pipeline.memory) = 2
    /\ pipeline.memory[1].type = "human" /\ pipeline.memory[2].type = "ai"

\* the step of a script run that initialises the pipeline after a batch was indexed
InitializedAfterBatch ==
    run.pc = "initialize" /\ ret'.op = "initialize_rag_pipeline"

\* C20: in the application, a batch of uploaded files that yields at least one
\* chunk goes on to the index and to the construction of a pipeline (attempted
\* when the count query of the store answers); when the construction succeeds
\* the session holds a new pipeline whose history is empty, and the displayed
\* messages are as before. So, whatever the uploads, questions and clears, the
\* history of the pipeline never has more turns than there are displayed
\* messages (and it can have fewer).
C20_HistoryWithinMessages ==
    [][/\ (ProcessedBatch /\ ret'.value # <<>>) => run'.pc = "index"
       /\ IndexedBatch => run'.pc = "initialize"
       /\ InitializedAfterBatch
          => /\ messages' = messages
             /\ StoreInfo(vector_store, collection, FALSE).count > 0
             /\ ret'.fault \in {"none", "chain"}
                   => /\ ret'.value = TRUE
                      /\ pipeline'.constructed
                      /\ pipeline'.memory = <<>>
             /\ ret'.fault \in {"count", "llm"}
                   => /\ ret'.value = FALSE
                      /\ pipeline' = pipeline
       /\ Len(pipeline'.memory) <= Len(messages')]_vars

C20_Witness ==
    /\ ret.op = "initialize_rag_pipeline" /\ ret.value = TRUE /\ run.pc = "chat"
    /\ ret.before = 2
    /\ pipeline.constructed /\ pipeline.memory = <<>>
    /\ Len(messages) = 2

\* a pipeline is installed in the session only by a step that found the
\* store reporting count > 0 (holds in every session)
InstalledOverDocuments ==
    [][(pipeline'.constructed
          /\ (~pipeline.constructed \/ ret'.op = "initialize_rag_pipeline")
          /\ pipeline' # pipeline)
          => /\ ret'.op = "initialize_rag_pipeline"
             /\ StoreInfo(vector_store, collection, FALSE).count > 0]_vars

\* clear_all_data leaves neither a pipeline nor an index object (holds when
\* neither delete_collection nor shutil.rmtree raises)
ClearRemovesBoth ==
    [][ret'.op = "clear_all_data"
          => (pipeline' = NoPipeline /\ vector_store' = "None")
             \/ ret'.fault # "none"]_vars

\* C21: in every state of a session (startups, uploads, questions and
\* clear-alls in any order), a session that holds a pipeline, so that the chat
\* input is enabled, has a store with an index object.
C21_PipelineImpliesIndex == pipeline.constructed => vector_store # "None"

====
